---- MODULE Spec2Model ----
(***************************************************************************)
(* A model of scribble, the browser plotter of Measurement Sets.           *)
(*                                                                         *)
(*   src/scribble/plot_gui.py            the current application           *)
(*   src/scribble/__main__.py            the command-line entry point      *)
(*   src/build/lib/scribble/plot_gui.py  the packaged (older) application  *)
(*                                                                         *)
(* Python values are modelled as follows.  None is the string "None".  An  *)
(* optional index (corr_idx) is a set of at most one number, {} for None.  *)
(* A numpy array is a record [shape, flat]: its shape and its elements in  *)
(* C order, so that flatten, the slice [:, :, k] and boolean masking are   *)
(* computed on positions.  An exception is a record field exc naming the   *)
(* exception class, "none" when the call returned.                         *)
(***************************************************************************)
EXTENDS Integers, Sequences, FiniteSets, TLC

None == "None"

\* src/scribble/plot_gui.py:14
VIS_COLUMNS == <<"DATA", "CORRECTED_DATA", "MODEL_DATA", "RESIDUAL_DATA">>

Range(s) == {s[i] : i \in DOMAIN s}

IsVisColumn(c) == c \in Range(VIS_COLUMNS)

(***************************************************************************)
(* numpy arrays                                                            *)
(***************************************************************************)
RECURSIVE Prod(_)
Prod(shape) == IF shape = <<>> THEN 1 ELSE Head(shape) * Prod(Tail(shape))

Ndim(a) == Len(a.shape)

\* a.flatten(): the same elements, one axis
Flatten(a) == [shape |-> <<Len(a.flat)>>, flat |-> a.flat]

\* a[:, :, k] of a 3-dimensional array: element (r, ch) is element (r, ch, k)
SliceLast(a, k) ==
    LET n3 == a.shape[3]
        n  == a.shape[1] * a.shape[2]
    IN  [shape |-> <<a.shape[1], a.shape[2]>>,
         flat  |-> [j \in 1..n |-> a.flat[(j - 1) * n3 + k + 1]]]

\* ~a of a boolean array
Invert(a) == [shape |-> a.shape, flat |-> [i \in DOMAIN a.flat |-> ~a.flat[i]]]

\* the elements of vals at the positions where mask is true, in order
RECURSIVE Compress(_, _)
Compress(vals, mask) ==
    IF vals = <<>> THEN <<>>
    ELSE IF Head(mask) THEN <<Head(vals)>> \o Compress(Tail(vals), Tail(mask))
         ELSE Compress(Tail(vals), Tail(mask))

(***************************************************************************)
(* casacore tables.  A Measurement Set is a record                         *)
(*   colnames  the main table's column names, in table order               *)
(*   coldesc   column name -> its description, a dict that may hold the    *)
(*             key "shape"                                                 *)
(*   nrows, nchan, ncorr   the extent of the visibility and FLAG cells     *)
(*   flags     the FLAG column's elements in C order                       *)
(*   pol       the POLARIZATION subtable: readable (table() opens it),     *)
(*             colnames, and corr_type, the rows of CORR_TYPE              *)
(* A cell of a visibility column is tagged with its position (its index    *)
(* in C order) and a per-row cell with its row, so that a frame says       *)
(* which samples it kept.                                                  *)
(***************************************************************************)
DictGet(d, k, default) == IF k \in DOMAIN d THEN d[k] ELSE default

\* t.getcol(c) of the main table
GetCol(ms, c) ==
    IF c = "FLAG"
    THEN [shape |-> <<ms.nrows, ms.nchan, ms.ncorr>>, flat |-> ms.flags]
    ELSE IF IsVisColumn(c)
    THEN [shape |-> <<ms.nrows, ms.nchan, ms.ncorr>>,
          flat  |-> [i \in 1..(ms.nrows * ms.nchan * ms.ncorr) |-> i - 1]]
    ELSE IF c = "UVW"
    THEN [shape |-> <<ms.nrows, 3>>,
          flat  |-> [i \in 1..(ms.nrows * 3) |-> (i - 1) \div 3]]
    ELSE [shape |-> <<ms.nrows>>, flat |-> [i \in 1..ms.nrows |-> i - 1]]

\* load_ms_columns(ms_path): (colnames, vis_colinfo)
LoadMsColumns(ms) ==
    LET present == {c \in Range(VIS_COLUMNS) : c \in Range(ms.colnames)}
        info(c) ==
            LET shape == DictGet(ms.coldesc[c], "shape", <<>>)
            IN  [shape  |-> shape,
                 n_corr |-> IF Len(shape) >= 1 THEN shape[Len(shape)] ELSE 1,
                 n_chan |-> IF Len(shape) >= 2 THEN shape[Len(shape) - 1] ELSE 1]
    IN  [colnames |-> ms.colnames, vis_colinfo |-> [c \in present |-> info(c)]]

\* one requested column of load_ms_data, before masking
LoadColumn(ms, c, corr_idx) ==
    LET data == GetCol(ms, c)
    IN  IF IsVisColumn(c)
        THEN IF Ndim(data) = 3 /\ corr_idx /= {}
             THEN Flatten(SliceLast(data, CHOOSE k \in corr_idx : TRUE)).flat
             ELSE Flatten(data).flat
        ELSE IF Ndim(data) > 1 THEN Flatten(data).flat ELSE data.flat

\* the mask of load_ms_data: ~flags.flatten(), flags sliced when 3-dimensional
FlagMask(ms, corr_idx, flag_col) ==
    LET flags == GetCol(ms, flag_col)
        used  == IF Ndim(flags) = 3 /\ corr_idx /= {}
                 THEN SliceLast(flags, CHOOSE k \in corr_idx : TRUE)
                 ELSE flags
    IN  Invert(Flatten(used)).flat

\* load_ms_data(ms_path, usecols, corr_idx, flag_col): the frame, column name ->
\* values, or the exception raised (a boolean index of another length is an
\* IndexError; a DataFrame of columns of unequal length is a ValueError)
LoadMsData(ms, usecols, corr_idx, flag_col) ==
    LET arrs   == [c \in usecols |-> LoadColumn(ms, c, corr_idx)]
        doMask == flag_col /= None /\ flag_col \in Range(ms.colnames)
        mask   == FlagMask(ms, corr_idx, flag_col)
        masked == [c \in usecols |-> Compress(arrs[c], mask)]
        out    == IF doMask THEN masked ELSE arrs
    IN  IF doMask /\ \E c \in usecols : Len(arrs[c]) /= Len(mask)
        THEN [exc |-> "IndexError", frame |-> <<>>]
        ELSE IF \E c, e \in usecols : Len(out[c]) /= Len(out[e])
        THEN [exc |-> "ValueError", frame |-> <<>>]
        ELSE [exc |-> "none", frame |-> out]

\* len(df) and df.empty
FrameLen(frame) ==
    IF DOMAIN frame = {} THEN 0 ELSE Len(frame[CHOOSE c \in DOMAIN frame : TRUE])

FrameEmpty(frame) == DOMAIN frame = {} \/ FrameLen(frame) = 0

(***************************************************************************)
(* get_corr_labels                                                         *)
(***************************************************************************)
Digits == <<"0", "1", "2", "3", "4", "5", "6", "7", "8", "9">>

\* str(n) of an integer
RECURSIVE Str(_)
Str(n) ==
    IF n < 0 THEN "-" \o Str(0 - n)
    ELSE IF n < 10 THEN Digits[n + 1]
    ELSE Str(n \div 10) \o Digits[(n % 10) + 1]

\* a CORR_MAP with the cross hands exchanged
CorrNameSwapped(c) ==
    CASE c = 5 -> "RR" [] c = 6 -> "LR" [] c = 7 -> "RL" [] c = 8 -> "LL"
      [] c = 9 -> "XX" [] c = 10 -> "XY" [] c = 11 -> "YX" [] c = 12 -> "YY"
      [] OTHER -> Str(c)

\* CORR_MAP.get(c, str(c))
CorrName(c) ==
    CASE c = 5 -> "RR" [] c = 6 -> "RL" [] c = 7 -> "LR" [] c = 8 -> "LL"
      [] c = 9 -> "XX" [] c = 10 -> "XY" [] c = 11 -> "YX" [] c = 12 -> "YY"
      [] OTHER -> Str(c)

\* the truth value of a table object in "if t:": a casacore table has a
\* length, its number of rows, so it is true when it has a row
TableTruth(nrows) == nrows /= 0

\* get_corr_labels(ms_path, vis_col): the labels, and whether the POLARIZATION
\* table was opened and closed
GetCorrLabels(ms, vis_col) ==
    LET pol      == ms.pol
        opened   == pol.readable
        tryOk    == /\ opened
                    /\ "CORR_TYPE" \in pol.colnames
                    /\ Len(pol.corr_type) >= 1
        row      == pol.corr_type[1]
        cols     == LoadMsColumns(ms)
        n_corr   == DictGet(DictGet(cols.vis_colinfo, vis_col, <<>>), "n_corr", 4)
        normal   == [i \in 1..Len(row) |-> CorrName(row[i])]
        fallback == [i \in 1..n_corr |-> Str(i - 1)]
    IN  [exc    |-> "none",
         path   |-> IF tryOk THEN "normal" ELSE "fallback",
         labels |-> IF tryOk THEN normal ELSE fallback,
         opened |-> opened,
         closed |-> opened /\ TableTruth(Len(pol.corr_type))]

(***************************************************************************)
(* The file system and the Measurement Sets on it.  A path is a sequence   *)
(* of characters; an optional path is a set of at most one path, {} for    *)
(* None.  A text (a Div's text, a figure's title) is the sequence of the   *)
(* strings it is formatted from.                                           *)
(***************************************************************************)
NoPath == {}

\* the truth value of an optional path: neither None nor ''
PathTruth(p) == p /= {} /\ p /= {<<>>}

ThePath(p) == CHOOSE q \in p : TRUE

\* the directory entries there may be: four Measurement Sets, a plain
\* directory and a plain file
MsNames == {<<"a">>, <<"b">>, <<"e">>, <<"z">>}

FsNames == MsNames \cup {<<"n">>, <<"f">>}

\* os.path.abspath, the working directory being the root
Abspath(p) == IF p /= <<>> /\ Head(p) = "/" THEN p ELSE <<"/">> \o p

\* the directory entry an absolute or relative path names
Entry(p) == IF p /= <<>> /\ Head(p) = "/" THEN Tail(p) ELSE p

IsDir(f, p) == Entry(p) \in DOMAIN f /\ f[Entry(p)] \in {"dir", "ms"}

\* os.path.exists(os.path.join(p, 'TABLES'))
HasTables(f, p) == Entry(p) \in DOMAIN f /\ f[Entry(p)] = "ms"

\* list_possible_ms_dirs('.'): os.listdir gives the entries in no set order
list_possible_ms_dirs(f) ==
    {n \in DOMAIN f : IsDir(f, n) /\ HasTables(f, n)}

NoDesc == <<>>

MsA ==
    [colnames  |-> <<"TIME", "FLAG", "DATA">>,
     coldesc   |-> [c \in {"TIME", "FLAG", "DATA"} |->
                       IF c = "TIME" THEN NoDesc ELSE [shape |-> <<1, 1>>]],
     nrows |-> 2, nchan |-> 1, ncorr |-> 1,
     flags |-> <<TRUE, FALSE>>,
     pol   |-> [readable |-> TRUE, colnames |-> {"CORR_TYPE"}, corr_type |-> <<<<9>>>>]]

MsB ==
    [colnames  |-> <<"DATA", "FLAG", "TIME">>,
     coldesc   |-> [c \in {"TIME", "FLAG", "DATA"} |->
                       IF c = "TIME" THEN NoDesc ELSE [shape |-> <<1, 2>>]],
     nrows |-> 1, nchan |-> 1, ncorr |-> 2,
     flags |-> <<FALSE, TRUE>>,
     pol   |-> [readable |-> TRUE, colnames |-> {"CORR_TYPE"}, corr_type |-> <<<<5, 8>>>>]]

MsE ==
    [colnames  |-> <<"TIME", "DATA", "FLAG">>,
     coldesc   |-> [c \in {"TIME", "FLAG", "DATA"} |-> NoDesc],
     nrows |-> 1, nchan |-> 1, ncorr |-> 1,
     flags |-> <<TRUE>>,
     pol   |-> [readable |-> FALSE, colnames |-> {}, corr_type |-> <<>>]]

MsZ ==
    [colnames  |-> <<"TIME", "ANTENNA1">>,
     coldesc   |-> [c \in {"TIME", "ANTENNA1"} |-> NoDesc],
     nrows |-> 0, nchan |-> 1, ncorr |-> 1,
     flags |-> <<>>,
     pol   |-> [readable |-> TRUE, colnames |-> {"CORR_TYPE"}, corr_type |-> <<>>]]

\* table(path): the Measurement Set a path opens
Table(p) ==
    CASE Entry(p) = <<"a">> -> MsA
      [] Entry(p) = <<"b">> -> MsB
      [] Entry(p) = <<"e">> -> MsE
      [] OTHER -> MsZ

RECURSIVE SeqMin(_)
SeqMin(s) ==
    IF Len(s) = 1 THEN s[1]
    ELSE LET m == SeqMin(Tail(s)) IN IF s[1] < m THEN s[1] ELSE m

RECURSIVE SeqMax(_)
SeqMax(s) ==
    IF Len(s) = 1 THEN s[1]
    ELSE LET m == SeqMax(Tail(s)) IN IF s[1] > m THEN s[1] ELSE m

\* list.index(v)
Index(s, v) == CHOOSE i \in DOMAIN s : s[i] = v /\ \A j \in 1..(i - 1) : s[j] /= v

\* [c for c in colnames if c != 'FLAG']
AxisOpts(colnames) == SelectSeq(colnames, LAMBDA c : c /= "FLAG")

NoData == [image |-> <<>>, x |-> <<>>, y |-> <<>>, dw |-> <<>>, dh |-> <<>>]

\* the data source after a plot: the image stands for the rasterised points
PlotData(frame, xcol, ycol) ==
    [image |-> <<[x |-> frame[xcol], y |-> frame[ycol]]>>,
     x  |-> <<SeqMin(frame[xcol])>>,
     y  |-> <<SeqMin(frame[ycol])>>,
     dw |-> <<SeqMax(frame[xcol]) - SeqMin(frame[xcol])>>,
     dh |-> <<SeqMax(frame[ycol]) - SeqMin(frame[ycol])>>]

PlotTitle(xcol, ycol, usecorr) ==
    <<xcol, " vs ", ycol>> \o (IF usecorr /= <<>> THEN <<" (", usecorr[1], ")">> ELSE <<>>)

(***************************************************************************)
(* The browser session.  variant says which application serves it: "src"   *)
(* is src/scribble/plot_gui.py, "build" the packaged one.  trace is the    *)
(* record of the last callback that ran: its name, the table functions it  *)
(* called, and its call of load_ms_data (arguments and result), if any.    *)
(***************************************************************************)
VARIABLES
    variant,        \* which plot_gui.py serves the session
    ms_path,        \* plot_gui's argument: sys.argv[1], or None
    fs,             \* directory entry -> "ms" (a directory with TABLES), "dir", "file"
    g_flag_col,     \* the module's global flag_col; "unset" while it is not bound
    selected_ms,    \* bokeh_app: selected_ms['path']
    ms_select, axis_opts, vis_colinfo,
    flag_col,       \* bokeh_app's local flag_col, the one run_plot closes over
    select_x, select_y, select_group, select_corr,
    plot_button, export_button, status_div, outfig, render,
    ms_path_input, plot_layout, plot_status,
    loaded,         \* on_load's locals: path, axis_opts, flag_col, vis_columns_avail
    trace,
    call,           \* a call of a table function on its own: arguments and result
    argv,           \* sys.argv
    main_pc,        \* where main() is
    main_arg,       \* main's local ms_path
    sleeps,         \* how many times time.sleep(100) has returned
    sigint,         \* where a KeyboardInterrupt reached the main thread, if one has
    stdout,         \* what has been printed
    server,         \* the thread of bk_worker: where it is, and its daemon flag
    process         \* "running", or "exited" once the interpreter has shut down

widgetVars == <<select_x, select_y, select_group, select_corr, plot_button,
                export_button, status_div, outfig, render>>

srcVars == <<selected_ms, ms_select, axis_opts, vis_colinfo, flag_col>>

buildVars == <<ms_path_input, plot_layout, plot_status, loaded>>

mainVars == <<argv, main_pc, main_arg, sleeps, sigint, stdout, server, process>>

\* what no callback of a session changes
envVars == <<variant, ms_path, fs, call, mainVars>>

appVars == <<variant, ms_path, fs, g_flag_col, srcVars, widgetVars, buildVars, trace>>

NoLoad == <<>>

Trace(handler, calls, load) == [handler |-> handler, calls |-> calls, load |-> load]

\* update_corr_visibility: the correlation selector it leaves, and the table
\* functions it called.  vis is the set of names it looks the axes up in.
update_corr_visibility(xval, yval, vis, path, sc) ==
    LET inx     == xval \in vis
        iny     == yval \in vis
        any_vis == inx \/ iny
        viscol  == IF inx THEN xval ELSE yval
        got     == GetCorrLabels(Table(ThePath(path)), viscol)
        corr_labels == got.labels
    IN  IF any_vis
        THEN [sc    |-> [visible |-> TRUE,
                         options |-> corr_labels,
                         value   |-> IF sc.value = <<>>
                                        \/ Range(sc.value) \ Range(corr_labels) /= {}
                                     THEN <<corr_labels[1]>>
                                     ELSE sc.value],
              calls |-> <<"get_corr_labels">> \o
                        (IF got.path = "fallback" THEN <<"load_ms_columns">> ELSE <<>>)]
        ELSE [sc    |-> [visible |-> FALSE, options |-> <<>>, value |-> <<>>],
              calls |-> <<>>]

\* a Select whose value is set: its on_change callback runs only when the value
\* changes
SetValue(old, new, xval, yval, vis, path, sc) ==
    IF old = new THEN [sc |-> sc, calls |-> <<>>]
    ELSE update_corr_visibility(xval, yval, vis, path, sc)

\* the widgets bokeh_app constructs, after its call of update_ms_list
FreshWidgets ==
    /\ select_x' = [options |-> <<>>, value |-> None]
    /\ select_y' = [options |-> <<>>, value |-> None]
    /\ select_group' = [options |-> <<"None">>, value |-> "None"]
    /\ select_corr' = [visible |-> FALSE, options |-> <<>>, value |-> <<>>]
    /\ plot_button' = [disabled |-> TRUE]
    /\ export_button' = [disabled |-> TRUE]
    /\ status_div' = [text |-> <<>>]
    /\ outfig' = [title |-> <<"Scribble Plot">>]
    /\ render' = [data |-> NoData]

\* plot_gui.bk_worker.app_wrapper(doc), then bokeh_app(doc): a new session.
\* The selected_ms that app_wrapper binds is its own local; bokeh_app binds
\* another.
app_wrapper ==
    /\ variant = "src"
    /\ selected_ms' = NoPath
    /\ ms_select' = [options |-> list_possible_ms_dirs(fs), value |-> NoPath]
    /\ axis_opts' = <<>>
    /\ vis_colinfo' = <<>>
    /\ flag_col' = None
    /\ FreshWidgets
    /\ trace' = Trace("app_wrapper", <<>>, NoLoad)
    /\ UNCHANGED <<envVars, g_flag_col, buildVars>>

\* Refresh List: update_ms_list.  Setting ms_select.value to None runs
\* ms_chosen, which does nothing for a value that is not true.
update_ms_list ==
    /\ variant = "src"
    /\ ms_select' = [options |-> list_possible_ms_dirs(fs), value |-> NoPath]
    /\ axis_opts' = <<>>
    /\ vis_colinfo' = <<>>
    /\ select_x' = [select_x EXCEPT !.options = <<>>]
    /\ select_y' = [select_y EXCEPT !.options = <<>>]
    /\ select_group' = [select_group EXCEPT !.options = <<"None">>]
    /\ select_corr' = [select_corr EXCEPT !.options = <<>>]
    /\ plot_button' = [disabled |-> TRUE]
    /\ export_button' = [disabled |-> TRUE]
    /\ status_div' = [text |-> <<>>]
    /\ outfig' = [title |-> <<"Scribble Plot">>]
    /\ render' = [data |-> NoData]
    /\ trace' = Trace("update_ms_list", <<>>, NoLoad)
    /\ UNCHANGED <<envVars, g_flag_col, selected_ms, flag_col, buildVars>>

\* the user chooses a Measurement Set in ms_select: ms_chosen
ms_chosen ==
    /\ variant = "src"
    /\ \E m \in ms_select.options :
        /\ {m} /= ms_select.value
        /\ LET path  == Abspath(m)
               cols  == LoadMsColumns(Table(path))
               opts  == AxisOpts(cols.colnames)
               vis   == DOMAIN cols.vis_colinfo
               u1    == SetValue(select_x.value, opts[1], opts[1], select_y.value,
                                 vis, {path}, select_corr)
               u2    == SetValue(select_y.value, opts[2], opts[1], opts[2],
                                 vis, {path}, u1.sc)
               u3    == update_corr_visibility(opts[1], opts[2], vis, {path}, u2.sc)
           IN  /\ ms_select' = [ms_select EXCEPT !.value = {m}]
               /\ selected_ms' = {path}
               /\ axis_opts' = opts
               /\ vis_colinfo' = cols.vis_colinfo
               /\ select_x' = [options |-> opts, value |-> opts[1]]
               /\ select_y' = [options |-> opts, value |-> opts[2]]
               /\ select_group' = [options |-> <<"None">> \o opts, value |-> "None"]
               /\ select_corr' = u3.sc
               /\ plot_button' = [disabled |-> FALSE]
               /\ export_button' = [disabled |-> FALSE]
               /\ g_flag_col' = IF "FLAG" \in Range(cols.colnames) THEN "FLAG" ELSE None
               /\ trace' = Trace("ms_chosen",
                                 <<"load_ms_columns">> \o u1.calls \o u2.calls \o u3.calls,
                                 NoLoad)
    /\ UNCHANGED <<envVars, flag_col, status_div, outfig, render, buildVars>>

\* the user changes the X axis: the lambda on select_x
select_x_changed ==
    /\ variant = "src"
    /\ \E c \in Range(select_x.options) :
        /\ c /= select_x.value
        /\ LET u == update_corr_visibility(c, select_y.value, DOMAIN vis_colinfo,
                                           selected_ms, select_corr)
           IN  /\ select_x' = [select_x EXCEPT !.value = c]
               /\ select_corr' = u.sc
               /\ trace' = Trace("update_corr_visibility", u.calls, NoLoad)
    /\ UNCHANGED <<envVars, g_flag_col, srcVars, select_y, select_group, plot_button,
                   export_button, status_div, outfig, render, buildVars>>

\* the user changes the Y axis: the lambda on select_y
select_y_changed ==
    /\ variant = "src"
    /\ \E c \in Range(select_y.options) :
        /\ c /= select_y.value
        /\ LET u == update_corr_visibility(select_x.value, c, DOMAIN vis_colinfo,
                                           selected_ms, select_corr)
           IN  /\ select_y' = [select_y EXCEPT !.value = c]
               /\ select_corr' = u.sc
               /\ trace' = Trace("update_corr_visibility", u.calls, NoLoad)
    /\ UNCHANGED <<envVars, g_flag_col, srcVars, select_x, select_group, plot_button,
                   export_button, status_div, outfig, render, buildVars>>

\* the elements of s at the positions in I, in order, from position i on
RECURSIVE Pick(_, _, _)
Pick(s, I, i) ==
    IF i > Len(s) THEN <<>>
    ELSE (IF i \in I THEN <<s[i]>> ELSE <<>>) \o Pick(s, I, i + 1)

\* what the user can select in a MultiSelect: any of its options, in their order
Selections(options) == {Pick(options, I, 1) : I \in SUBSET DOMAIN options}

\* whether the plot controls are on the page
ControlsShown == variant = "src" \/ plot_layout.children /= <<>>

\* the user changes the Group by selector; no callback is registered on it
select_group_changed ==
    /\ ControlsShown
    /\ \E c \in Range(select_group.options) :
        /\ c /= select_group.value
        /\ select_group' = [select_group EXCEPT !.value = c]
    /\ trace' = Trace("none", <<>>, NoLoad)
    /\ UNCHANGED <<envVars, g_flag_col, srcVars, select_x, select_y, select_corr,
                   plot_button, export_button, status_div, outfig, render, buildVars>>

\* the user changes the selection of correlations; no callback is registered on it
select_corr_changed ==
    /\ ControlsShown
    /\ select_corr.visible
    /\ \E v \in Selections(select_corr.options) :
        /\ v /= select_corr.value
        /\ select_corr' = [select_corr EXCEPT !.value = v]
    /\ trace' = Trace("none", <<>>, NoLoad)
    /\ UNCHANGED <<envVars, g_flag_col, srcVars, select_x, select_y, select_group,
                   plot_button, export_button, status_div, outfig, render, buildVars>>

\* what run_plot computes before it loads: usecorr (None is the empty list,
\* which is tested for truth only), corr_idx, usecols
PlotRequest(fc, viscols) ==
    LET xcol     == select_x.value
        ycol     == select_y.value
        groupcol == IF select_group.value /= "None" THEN {select_group.value} ELSE {}
        usecorr  == IF select_corr.visible THEN select_corr.value ELSE <<>>
        indexed  == usecorr /= <<>> /\ select_corr.visible
    IN  [xcol     |-> xcol,
         ycol     |-> ycol,
         usecorr  |-> usecorr,
         \* corr_labels.index(usecorr[0]) raises ValueError for a value not listed
         exc      |-> IF indexed /\ usecorr[1] \notin Range(select_corr.options)
                      THEN "ValueError" ELSE "none",
         corr_idx |-> IF indexed /\ usecorr[1] \in Range(select_corr.options)
                      THEN {Index(select_corr.options, usecorr[1]) - 1} ELSE {},
         usecols  |-> {xcol, ycol} \cup groupcol
                      \cup (IF fc /= None THEN {fc} ELSE {})
                      \cup {v \in viscols : xcol = v \/ ycol = v}]

LoadRecord(q, fc, r) ==
    <<[usecols |-> q.usecols, corr_idx |-> q.corr_idx, flag_col |-> fc,
       exc |-> r.exc, frame |-> r.frame]>>

NoDataText == <<"No data to plot (possible all flagged/filtered?)">>

PlottedText(frame) == <<"Plotted ", Str(FrameLen(frame)), " points.">>

\* a run_plot that also clears the image when it has no data
NoDataReturnClears ==
    /\ status_div' = [text |-> NoDataText]
    /\ render' = [data |-> NoData]
    /\ UNCHANGED outfig

\* run_plot on an empty frame: the status text is set, and it returns
NoDataReturn ==
    /\ status_div' = [text |-> NoDataText]
    /\ UNCHANGED <<outfig, render>>

\* Plot is clicked: run_plot.  An exception leaves the handler where it is
\* raised; the server logs it.
run_plot ==
    /\ variant = "src"
    /\ ~plot_button.disabled
    /\ IF ~PathTruth(selected_ms)
       THEN /\ status_div' = [text |-> <<"No Measurement Set selected!">>]
            /\ trace' = Trace("run_plot", <<>>, NoLoad)
            /\ UNCHANGED <<outfig, render>>
       ELSE LET q == PlotRequest(flag_col, Range(VIS_COLUMNS))
                r == LoadMsData(Table(ThePath(selected_ms)), q.usecols, q.corr_idx,
                                flag_col)
            IN  IF q.exc /= "none"
                THEN /\ trace' = Trace("run_plot", <<>>, NoLoad)
                     /\ UNCHANGED <<status_div, outfig, render>>
                ELSE /\ trace' = Trace("run_plot", <<"load_ms_data">>,
                                       LoadRecord(q, flag_col, r))
                     /\ IF r.exc /= "none"
                        THEN UNCHANGED <<status_div, outfig, render>>
                        ELSE IF FrameEmpty(r.frame)
                        THEN NoDataReturn
                        ELSE /\ render' = [data |-> PlotData(r.frame, q.xcol, q.ycol)]
                             /\ outfig' = [title |-> PlotTitle(q.xcol, q.ycol, q.usecorr)]
                             /\ status_div' = [text |-> PlottedText(r.frame)]
    /\ UNCHANGED <<envVars, g_flag_col, srcVars, select_x, select_y, select_group,
                   select_corr, plot_button, export_button, buildVars>>

ExportedText == <<"Plot exported to scribble_export.png">>

\* Export as PNG is clicked: export_png
export_png ==
    /\ variant = "src"
    /\ ~export_button.disabled
    /\ status_div' = [text |-> ExportedText]
    /\ trace' = Trace("export_png", <<>>, NoLoad)
    /\ UNCHANGED <<envVars, g_flag_col, srcVars, select_x, select_y, select_group,
                   select_corr, plot_button, export_button, outfig, render, buildVars>>

(***************************************************************************)
(* The packaged application: src/build/lib/scribble/plot_gui.py.  Its      *)
(* controls are built by on_load and shown in plot_layout.                 *)
(***************************************************************************)
IsSpace(ch) == ch = " "

\* str.strip()
RECURSIVE LStrip(_)
LStrip(t) == IF t /= <<>> /\ IsSpace(Head(t)) THEN LStrip(Tail(t)) ELSE t

RECURSIVE RStrip(_)
RStrip(t) ==
    IF t /= <<>> /\ IsSpace(t[Len(t)]) THEN RStrip(SubSeq(t, 1, Len(t) - 1)) ELSE t

Strip(t) == RStrip(LStrip(t))

NotLoaded == [path |-> <<>>, axis_opts |-> <<>>, flag_col |-> None,
              vis_columns_avail |-> <<>>]

\* a new session of the packaged bokeh_app: the path input, the Load button
\* and an empty plot_layout; no control exists yet
build_app_wrapper ==
    /\ variant = "build"
    /\ ms_path_input' = [value |-> <<>>]
    /\ status_div' = [text |-> <<>>]
    /\ plot_layout' = [children |-> <<>>]
    /\ plot_status' = [text |-> <<>>]
    /\ loaded' = NotLoaded
    /\ select_x' = [options |-> <<>>, value |-> None]
    /\ select_y' = [options |-> <<>>, value |-> None]
    /\ select_group' = [options |-> <<"None">>, value |-> "None"]
    /\ select_corr' = [visible |-> FALSE, options |-> <<>>, value |-> <<>>]
    /\ plot_button' = [disabled |-> TRUE]
    /\ export_button' = [disabled |-> TRUE]
    /\ outfig' = [title |-> <<"Scribble Plot">>]
    /\ render' = [data |-> NoData]
    /\ trace' = Trace("app_wrapper", <<>>, NoLoad)
    /\ UNCHANGED <<envVars, g_flag_col, srcVars>>

MaxPathLen == 2

PathChars == {" ", "a", "e", "n"}

PathTexts == UNION {[1..n -> PathChars] : n \in 0..MaxPathLen}

InvalidText == <<"<span style='color:red;'>", "Not a valid MS directory path!", "</span>">>

\* a test that forgets the TABLES entry
ValidMsPathNoTables(f, path) == ~(path = <<>> \/ ~IsDir(f, path))

\* the test of on_load
ValidMsPath(f, path) == ~(path = <<>> \/ ~IsDir(f, path) \/ ~HasTables(f, path))

\* The user leaves a text in the MS Directory input (no callback is
\* registered on it) and clicks Load MS: on_load
on_load ==
    /\ variant = "build"
    /\ \E text \in PathTexts :
       /\ ms_path_input' = [value |-> text]
       /\ LET path == Strip(text)
          IN  IF ~ValidMsPath(fs, path)
              THEN /\ status_div' = [text |-> InvalidText]
                   /\ plot_layout' = [children |-> <<>>]
                   /\ trace' = Trace("on_load", <<>>, NoLoad)
                   /\ UNCHANGED <<select_x, select_y, select_group, select_corr,
                                  plot_button, export_button, outfig, render,
                                  plot_status, loaded>>
              ELSE LET cols  == LoadMsColumns(Table(path))
                       opts  == AxisOpts(cols.colnames)
                       fc    == IF "FLAG" \in Range(cols.colnames) THEN "FLAG" ELSE None
                       avail == SelectSeq(VIS_COLUMNS, LAMBDA c : c \in Range(cols.colnames))
                       u     == update_corr_visibility(opts[1], opts[2], Range(avail), {path},
                                    [visible |-> FALSE, options |-> <<>>, value |-> <<>>])
                   IN  /\ status_div' = [text |-> <<"<b style='color:green;'>", "Loaded: ">> \o Abspath(path) \o <<"</b>">>]
                       /\ loaded' = [path |-> path, axis_opts |-> opts, flag_col |-> fc,
                                     vis_columns_avail |-> avail]
                       /\ select_x' = [options |-> opts, value |-> opts[1]]
                       /\ select_y' = [options |-> opts, value |-> opts[2]]
                       /\ select_group' = [options |-> <<"None">> \o opts, value |-> "None"]
                       /\ select_corr' = u.sc
                       /\ plot_button' = [disabled |-> FALSE]
                       /\ export_button' = [disabled |-> TRUE]
                       /\ plot_status' = [text |-> <<>>]
                       /\ outfig' = [title |-> <<"Scribble Plot">>]
                       /\ render' = [data |-> NoData]
                       /\ plot_layout' = [children |-> <<"plot_controls">>]
                       /\ trace' = Trace("on_load", <<"load_ms_columns">> \o u.calls, NoLoad)
    /\ UNCHANGED <<envVars, g_flag_col, srcVars>>

\* the user changes the X axis of the loaded controls
on_load_select_x_changed ==
    /\ variant = "build"
    /\ plot_layout.children /= <<>>
    /\ \E c \in Range(select_x.options) :
        /\ c /= select_x.value
        /\ LET u == update_corr_visibility(c, select_y.value,
                        Range(loaded.vis_columns_avail), {loaded.path}, select_corr)
           IN  /\ select_x' = [select_x EXCEPT !.value = c]
               /\ select_corr' = u.sc
               /\ trace' = Trace("update_corr_visibility", u.calls, NoLoad)
    /\ UNCHANGED <<envVars, g_flag_col, srcVars, select_y, select_group, plot_button,
                   export_button, status_div, outfig, render, buildVars>>

\* the user changes the Y axis of the loaded controls
on_load_select_y_changed ==
    /\ variant = "build"
    /\ plot_layout.children /= <<>>
    /\ \E c \in Range(select_y.options) :
        /\ c /= select_y.value
        /\ LET u == update_corr_visibility(select_x.value, c,
                        Range(loaded.vis_columns_avail), {loaded.path}, select_corr)
           IN  /\ select_y' = [select_y EXCEPT !.value = c]
               /\ select_corr' = u.sc
               /\ trace' = Trace("update_corr_visibility", u.calls, NoLoad)
    /\ UNCHANGED <<envVars, g_flag_col, srcVars, select_x, select_group, plot_button,
                   export_button, status_div, outfig, render, buildVars>>

AllFlaggedText == <<"<span style='color:red;'>", "No data to plot (all flagged?)", "</span>">>

ErrorText(exc) == <<"<span style='color:red;'>", "Error loading MS data: ", exc, "</span>">>

\* Plot is clicked in the loaded controls: on_load's run_plot, which catches
\* what load_ms_data raises
on_load_run_plot ==
    /\ variant = "build"
    /\ plot_layout.children /= <<>>
    /\ ~plot_button.disabled
    /\ LET q == PlotRequest(loaded.flag_col, Range(loaded.vis_columns_avail))
           r == LoadMsData(Table(loaded.path), q.usecols, q.corr_idx, loaded.flag_col)
       IN  IF q.exc /= "none"
           THEN /\ trace' = Trace("run_plot", <<>>, NoLoad)
                /\ UNCHANGED <<plot_status, outfig, render, export_button>>
           ELSE /\ trace' = Trace("run_plot", <<"load_ms_data">>,
                                  LoadRecord(q, loaded.flag_col, r))
                /\ IF r.exc /= "none"
                   THEN /\ plot_status' = [text |-> ErrorText(r.exc)]
                        /\ UNCHANGED <<outfig, render, export_button>>
                   ELSE IF FrameEmpty(r.frame)
                   THEN /\ plot_status' = [text |-> AllFlaggedText]
                        /\ UNCHANGED <<outfig, render, export_button>>
                   ELSE /\ render' = [data |-> PlotData(r.frame, q.xcol, q.ycol)]
                        /\ outfig' = [title |-> PlotTitle(q.xcol, q.ycol, q.usecorr)]
                        /\ plot_status' = [text |-> PlottedText(r.frame)]
                        /\ export_button' = [disabled |-> FALSE]
    /\ UNCHANGED <<envVars, g_flag_col, srcVars, select_x, select_y, select_group,
                   select_corr, plot_button, status_div, ms_path_input, plot_layout,
                   loaded>>

\* Export as PNG is clicked in the loaded controls
on_load_export_png ==
    /\ variant = "build"
    /\ plot_layout.children /= <<>>
    /\ ~export_button.disabled
    /\ plot_status' = [text |-> ExportedText]
    /\ trace' = Trace("export_png", <<>>, NoLoad)
    /\ UNCHANGED <<envVars, g_flag_col, srcVars, widgetVars, ms_path_input, plot_layout,
                   loaded>>

(***************************************************************************)
(* The sessions' specification.  The working directory holds the four      *)
(* Measurement Sets of the catalogue, a plain directory "n" and a plain    *)
(* file "f".                                                               *)
(***************************************************************************)
WorkDir ==
    [n \in FsNames |->
        IF n = <<"n">> THEN "dir" ELSE IF n = <<"f">> THEN "file" ELSE "ms"]

\* the state once plot_gui has started the server and the first session is open
AppInit ==
    /\ variant \in {"src", "build"}
    /\ ms_path \in {NoPath, {<<"a">>}}
    /\ fs = WorkDir
    /\ g_flag_col = "unset"
    /\ selected_ms = NoPath
    /\ ms_select = IF variant = "src"
                   THEN [options |-> list_possible_ms_dirs(fs), value |-> NoPath]
                   ELSE [options |-> {}, value |-> NoPath]
    /\ axis_opts = <<>>
    /\ vis_colinfo = <<>>
    /\ flag_col = None
    /\ select_x = [options |-> <<>>, value |-> None]
    /\ select_y = [options |-> <<>>, value |-> None]
    /\ select_group = [options |-> <<"None">>, value |-> "None"]
    /\ select_corr = [visible |-> FALSE, options |-> <<>>, value |-> <<>>]
    /\ plot_button = [disabled |-> TRUE]
    /\ export_button = [disabled |-> TRUE]
    /\ status_div = [text |-> <<>>]
    /\ outfig = [title |-> <<"Scribble Plot">>]
    /\ render = [data |-> NoData]
    /\ ms_path_input = [value |-> <<>>]
    /\ plot_layout = [children |-> <<>>]
    /\ plot_status = [text |-> <<>>]
    /\ loaded = NotLoaded
    /\ trace = Trace("app_wrapper", <<>>, NoLoad)

AppNext ==
    \/ app_wrapper
    \/ update_ms_list
    \/ ms_chosen
    \/ select_x_changed
    \/ select_y_changed
    \/ select_group_changed
    \/ select_corr_changed
    \/ run_plot
    \/ export_png
    \/ build_app_wrapper
    \/ on_load
    \/ on_load_select_x_changed
    \/ on_load_select_y_changed
    \/ on_load_run_plot
    \/ on_load_export_png

(***************************************************************************)
(* The table functions on their own: call holds one call, its arguments    *)
(* and, once it has returned, its result.                                  *)
(***************************************************************************)
NoCall == [fn |-> "none", args |-> <<>>, out |-> <<>>]

MaxRows == 2

MaxChan == 2

MaxCorr == 2

BoolSeqs(n) == [1..n -> BOOLEAN]

\* a main table of the given extent, with or without a FLAG column
DataMs(nrows, nchan, ncorr, flags, hasFlag) ==
    [colnames |-> IF hasFlag THEN <<"TIME", "UVW", "FLAG", "DATA">>
                  ELSE <<"TIME", "UVW", "DATA">>,
     coldesc  |-> [c \in {"TIME", "UVW", "FLAG", "DATA"} |-> NoDesc],
     nrows |-> nrows, nchan |-> nchan, ncorr |-> ncorr,
     flags |-> flags,
     pol   |-> [readable |-> FALSE, colnames |-> {}, corr_type |-> <<>>]]

MaxSamples == 8

\* the tables of at most MaxSamples samples
DataTables ==
    UNION {UNION {UNION {
        IF r * ch * co > MaxSamples THEN {}
        ELSE {DataMs(r, ch, co, f, TRUE) : f \in BoolSeqs(r * ch * co)}
             \cup {DataMs(r, ch, co, [i \in 1..(r * ch * co) |-> FALSE], FALSE)}
        : co \in 1..MaxCorr} : ch \in 1..MaxChan} : r \in 0..MaxRows}

DataInit ==
    \E t \in DataTables :
        \E u \in (SUBSET Range(t.colnames)) \ {{}},
           k \in {{}} \cup {{i} : i \in 0..(t.ncorr - 1)},
           fc \in {None, "FLAG"} :
            call = [fn |-> "load_ms_data",
                    args |-> [ms |-> t, usecols |-> u, corr_idx |-> k, flag_col |-> fc],
                    out |-> <<>>]

\* load_ms_data(ms_path, usecols, corr_idx, flag_col) is called and returns or raises
load_ms_data ==
    /\ call.fn = "load_ms_data"
    /\ call.out = <<>>
    /\ call' = [call EXCEPT !.out = <<LoadMsData(call.args.ms, call.args.usecols,
                                                 call.args.corr_idx, call.args.flag_col)>>]
    /\ UNCHANGED <<appVars, mainVars>>

MaxCode == 13

MaxPolRows == 2

CorrRows == UNION {[1..n -> 0..MaxCode] : n \in 0..MaxCorr}

\* the rows of CORR_TYPE: the first is given, the others hold other codes
CorrTypeColumn(row, n) ==
    [i \in 1..n |-> IF i = 1 THEN row ELSE [j \in DOMAIN row |-> (row[j] + i) % (MaxCode + 1)]]

PolTables ==
    {[readable |-> FALSE, colnames |-> {}, corr_type |-> <<>>]}
    \cup {[readable |-> TRUE, colnames |-> {"FLAG_ROW"}, corr_type |-> CorrTypeColumn(<<>>, n)] :
            n \in 0..MaxPolRows}
    \cup {[readable |-> TRUE, colnames |-> {"CORR_TYPE"}, corr_type |-> CorrTypeColumn(row, n)] :
            row \in CorrRows, n \in 0..MaxPolRows}

\* the descriptions a visibility column may have: no shape, or a shape
VisDescs == {NoDesc, [shape |-> <<>>], [shape |-> <<MaxCorr>>], [shape |-> <<1, MaxCorr + 1>>]}

CorrMs(desc, pol) ==
    [colnames |-> <<"TIME", "FLAG", "DATA">>,
     coldesc  |-> [c \in {"TIME", "FLAG", "DATA"} |-> IF c = "DATA" THEN desc ELSE NoDesc],
     nrows |-> 1, nchan |-> 1, ncorr |-> 1,
     flags |-> <<FALSE>>,
     pol   |-> pol]

CorrInit ==
    \E d \in VisDescs, pt \in PolTables, v \in {"DATA", "MODEL_DATA"} :
        call = [fn |-> "get_corr_labels",
                args |-> [ms |-> CorrMs(d, pt), vis_col |-> v],
                out |-> <<>>]

\* get_corr_labels(ms_path, vis_col) is called and returns
get_corr_labels ==
    /\ call.fn = "get_corr_labels"
    /\ call.out = <<>>
    /\ call' = [call EXCEPT !.out = <<GetCorrLabels(call.args.ms, call.args.vis_col)>>]
    /\ UNCHANGED <<appVars, mainVars>>

(***************************************************************************)
(* The process: main() of src/scribble/__main__.py in the main thread and  *)
(* bk_worker in the thread plot_gui starts.  A KeyboardInterrupt is raised *)
(* in the main thread, wherever it is.  When main has ended the            *)
(* interpreter shuts down: it waits for the threads that are not daemons.  *)
(***************************************************************************)
MaxSleeps == 2

\* a thread that is not a daemon
ServerThreadNotDaemon == FALSE

\* threading.Thread(target=bk_worker, daemon=True)
ServerThreadDaemon == TRUE

ExitMessage == "\nExiting scribble."

Argvs == {<<"scribble">>, <<"scribble", <<"a">>>>, <<"scribble", <<"b">>, <<"x">>>>}

MainInit ==
    /\ argv \in Argvs
    /\ main_pc = "argv"
    /\ main_arg = NoPath
    /\ sleeps = 0
    /\ sigint = "none"
    /\ stdout = <<>>
    /\ server = [pc |-> "unborn", daemon |-> FALSE]
    /\ process = "running"

\* the main thread at rest, for the specifications of the other parts
MainIdle == MainInit /\ argv = <<"scribble">>

MainRunning == process = "running" /\ main_pc \notin {"returned", "raised"}

\* ms_path = sys.argv[1] if len(sys.argv) > 1 else None
main_argv ==
    /\ MainRunning /\ main_pc = "argv"
    /\ main_arg' = IF Len(argv) > 1 THEN {argv[2]} ELSE NoPath
    /\ main_pc' = "plot_gui"
    /\ UNCHANGED <<appVars, call, argv, sleeps, sigint, stdout, server, process>>

\* plot_gui(ms_path): the thread is created and started, and plot_gui returns
plot_gui ==
    /\ MainRunning /\ main_pc = "plot_gui"
    /\ server' = [pc |-> "bk_worker", daemon |-> ServerThreadDaemon]
    /\ main_pc' = "import"
    /\ UNCHANGED <<appVars, call, argv, main_arg, sleeps, sigint, stdout, process>>

\* import time, and main enters its try block
main_import ==
    /\ MainRunning /\ main_pc = "import"
    /\ main_pc' = "sleep"
    /\ UNCHANGED <<appVars, call, argv, main_arg, sleeps, sigint, stdout, server, process>>

\* while True: time.sleep(100)
main_sleep ==
    /\ MainRunning /\ main_pc = "sleep"
    /\ sleeps < MaxSleeps
    /\ sleeps' = sleeps + 1
    /\ UNCHANGED <<appVars, call, argv, main_pc, main_arg, sigint, stdout, server, process>>

\* a KeyboardInterrupt in the main thread: caught in the try block, and outside
\* it main ends with the exception
KeyboardInterrupt ==
    /\ MainRunning /\ sigint = "none"
    /\ IF main_pc = "sleep"
       THEN sigint' = "try" /\ main_pc' = "except"
       ELSE sigint' = "outside" /\ main_pc' = "raised"
    /\ UNCHANGED <<appVars, call, argv, main_arg, sleeps, stdout, server, process>>

\* except KeyboardInterrupt: print("\nExiting scribble."), and main returns
main_except ==
    /\ MainRunning /\ main_pc = "except"
    /\ stdout' = Append(stdout, ExitMessage)
    /\ main_pc' = "returned"
    /\ UNCHANGED <<appVars, call, argv, main_arg, sleeps, sigint, server, process>>

ServerRunning == process = "running"

\* bk_worker: Server(...), server.start(), webbrowser.open(url),
\* server.io_loop.start(), which does not return
bk_worker ==
    /\ ServerRunning
    /\ \/ server.pc = "bk_worker" /\ server' = [server EXCEPT !.pc = "Server"]
       \/ server.pc = "Server" /\ server' = [server EXCEPT !.pc = "start"]
       \/ server.pc = "start" /\ server' = [server EXCEPT !.pc = "webbrowser"]
       \/ server.pc = "webbrowser" /\ server' = [server EXCEPT !.pc = "io_loop"]
    /\ UNCHANGED <<appVars, call, argv, main_pc, main_arg, sleeps, sigint, stdout, process>>

\* a step of bk_worker raises: the thread ends
bk_worker_raises ==
    /\ ServerRunning
    /\ server.pc \in {"bk_worker", "Server", "start", "webbrowser", "io_loop"}
    /\ server' = [server EXCEPT !.pc = "ended"]
    /\ UNCHANGED <<appVars, call, argv, main_pc, main_arg, sleeps, sigint, stdout, process>>

ThreadAlive(t) == t.pc \notin {"unborn", "ended"}

\* the interpreter's shutdown once main has ended: it joins the threads that
\* are not daemons, and the process exits with the daemons
interpreter_exit ==
    /\ process = "running"
    /\ main_pc \in {"returned", "raised"}
    /\ ThreadAlive(server) => server.daemon
    /\ process' = "exited"
    /\ UNCHANGED <<appVars, call, argv, main_pc, main_arg, sleeps, sigint, stdout, server>>

MainNext ==
    \/ main_argv
    \/ plot_gui
    \/ main_import
    \/ main_sleep
    \/ KeyboardInterrupt
    \/ main_except
    \/ bk_worker
    \/ bk_worker_raises
    \/ interpreter_exit

vars == <<appVars, call, mainVars>>

\* the sessions at rest, for the specifications of the other parts
AppIdle == AppInit /\ variant = "src" /\ ms_path = NoPath

Init == AppInit /\ call = NoCall /\ MainIdle

Next == AppNext

Spec == Init /\ [][Next]_vars

DataSpecInit == AppIdle /\ DataInit /\ MainIdle

DataNext == load_ms_data

SpecData == DataSpecInit /\ [][DataNext]_vars

CorrSpecInit == AppIdle /\ CorrInit /\ MainIdle

CorrNext == get_corr_labels

SpecCorr == CorrSpecInit /\ [][CorrNext]_vars

MainSpecInit == AppIdle /\ call = NoCall /\ MainInit

SpecMain == MainSpecInit /\ [][MainNext]_vars

\* the interpreter schedules the main thread, and shuts down when main has ended
MainFairness ==
    /\ WF_vars(main_argv)
    /\ WF_vars(plot_gui)
    /\ WF_vars(main_import)
    /\ WF_vars(main_except)
    /\ WF_vars(interpreter_exit)

SpecMainFair == SpecMain /\ MainFairness

(***************************************************************************)
(* The claims about the sessions, under Spec.  Every state of Spec is      *)
(* quiescent: a callback and the callbacks it triggers are one step.       *)
(***************************************************************************)
LastLoad == trace.load[1]

PlotClicked == trace.handler = "run_plot" /\ trace.load /= NoLoad

\* the number of samples of ms that are not flagged, in the correlation taken
Unflagged(ms, corr_idx) ==
    Cardinality({i \in DOMAIN ms.flags :
                    /\ ~ms.flags[i]
                    /\ \A k \in corr_idx : (i - 1) % ms.ncorr = k})

\* C1: in a session of the current bokeh_app, once a Measurement Set with a
\* FLAG column is chosen, a click on Plot calls load_ms_data with
\* flag_col = 'FLAG', and the frame it gets holds the unflagged samples only.
C1_PlotFiltersFlags ==
    (/\ variant = "src"
     /\ PlotClicked
     /\ PathTruth(selected_ms)
     /\ "FLAG" \in Range(Table(ThePath(selected_ms)).colnames))
    => /\ LastLoad.flag_col = "FLAG"
       /\ LastLoad.exc = "none" =>
            FrameLen(LastLoad.frame)
                = Unflagged(Table(ThePath(selected_ms)), LastLoad.corr_idx)

\* C6: when plot_gui is given a path, a new session of the current
\* application starts with that path selected and Plot usable.
C6_SessionStartsLoaded ==
    (variant = "src" /\ trace.handler = "app_wrapper" /\ PathTruth(ms_path))
    => (selected_ms = ms_path /\ ~plot_button.disabled)

\* C9: the correlation selector is visible exactly when the X or Y axis is a
\* visibility column of the loaded Measurement Set, and when it is not
\* visible its options and value are empty.
C9_CorrVisibleIffVisAxis ==
    variant = "src" =>
        /\ select_corr.visible <=>
              (select_x.value \in DOMAIN vis_colinfo \/ select_y.value \in DOMAIN vis_colinfo)
        /\ ~select_corr.visible => (select_corr.options = <<>> /\ select_corr.value = <<>>)

\* the text shows the message, whatever markup is around it
Says(text, message) == \E i \in DOMAIN text : text[i] = message

SelectorsUnchanged ==
    /\ select_x' = select_x
    /\ select_y' = select_y
    /\ select_group' = select_group
    /\ select_corr' = select_corr
    /\ ms_select' = ms_select
    /\ ms_path_input' = ms_path_input

\* C3: a click on Plot whose load_ms_data returns an empty frame sets the
\* 'No data to plot' status and changes nothing else: the image, the title and
\* the selectors are as before the click.
C3_NoDataKeepsPlot ==
    [][(/\ trace'.handler = "run_plot"
        /\ trace'.load /= NoLoad
        /\ trace'.load[1].exc = "none"
        /\ FrameEmpty(trace'.load[1].frame))
       => /\ IF variant = "src"
             THEN Says(status_div'.text, "No data to plot (possible all flagged/filtered?)")
             ELSE /\ Says(plot_status'.text, "No data to plot (all flagged?)")
                  /\ status_div' = status_div
          /\ render' = render
          /\ outfig' = outfig
          /\ plot_button' = plot_button
          /\ export_button' = export_button
          /\ SelectorsUnchanged]_vars

\* C3's case: Plot was clicked, the frame was empty, and the image of an
\* earlier plot is still there
C3_Witness ==
    /\ PlotClicked
    /\ LastLoad.exc = "none"
    /\ FrameEmpty(LastLoad.frame)
    /\ render.data /= NoData
    /\ status_div.text = NoDataText

\* a text without the spaces at its ends
Stripped(t) ==
    LET inked == {i \in DOMAIN t : t[i] /= " "}
        first == CHOOSE i \in inked : \A j \in inked : i <= j
        last  == CHOOSE i \in inked : \A j \in inked : j <= i
    IN  IF inked = {} THEN <<>> ELSE SubSeq(t, first, last)

\* a text that, stripped, is empty, is no existing directory, or is a
\* directory with no TABLES entry
Rejected(t) ==
    LET p == Stripped(t)
    IN  p = <<>> \/ p \notin DOMAIN fs \/ fs[p] = "file" \/ fs[p] = "dir"

\* C4: on_load with a path that is empty after stripping, is not an existing
\* directory or has no TABLES entry sets the 'Not a valid MS directory path!'
\* status, empties the plot layout and returns without calling
\* load_ms_columns or building a control; and the entries offered by
\* list_possible_ms_dirs are directories that hold a TABLES entry.
C4_InvalidPathRejected ==
    /\ [](variant = "src" =>
            \A m \in ms_select.options : m \in DOMAIN fs /\ fs[m] = "ms")
    /\ [][(trace'.handler = "on_load" /\ Rejected(ms_path_input'.value))
          => /\ Says(status_div'.text, "Not a valid MS directory path!")
             /\ plot_layout'.children = <<>>
             /\ trace'.calls = <<>>
             /\ loaded' = loaded
             /\ plot_status' = plot_status
             /\ widgetVars' = <<select_x, select_y, select_group, select_corr, plot_button,
                                export_button, status_div', outfig, render>>]_vars

\* C4's case: after a Measurement Set was loaded, Load MS is clicked on the
\* name of a directory without TABLES, padded with a space
C4_Witness ==
    /\ trace.handler = "on_load"
    /\ Len(ms_path_input.value) > 1
    /\ Stripped(ms_path_input.value) = <<"n">>
    /\ loaded.path /= <<>>
    /\ plot_layout.children = <<>>

(***************************************************************************)
(* The claims about the table functions, under SpecCorr and SpecData.      *)
(***************************************************************************)
Returned(fn) == call.fn = fn /\ call.out /= <<>>

TheOut == call.out[1]

DecimalNames ==
    <<"0", "1", "2", "3", "4", "5", "6", "7", "8", "9", "10", "11", "12", "13", "14",
      "15", "16">>

\* the label the interface gives a correlation code
ClaimedName(c) ==
    IF c \in 5..8 THEN <<"RR", "RL", "LR", "LL">>[c - 4]
    ELSE IF c \in 9..12 THEN <<"XX", "XY", "YX", "YY">>[c - 8]
    ELSE DecimalNames[c + 1]

\* the POLARIZATION table opens and gives a first row of CORR_TYPE
PolReadable(pol) ==
    pol.readable /\ "CORR_TYPE" \in pol.colnames /\ Len(pol.corr_type) >= 1

\* C2: when the POLARIZATION subtable is readable, get_corr_labels returns one
\* label per entry of the first CORR_TYPE row, in order: RR, RL, LR, LL for
\* 5..8, XX, XY, YX, YY for 9..12, the decimal string of any other code.
C2_LabelsFollowCorrType ==
    (Returned("get_corr_labels") /\ PolReadable(call.args.ms.pol))
    => LET row == call.args.ms.pol.corr_type[1]
       IN  /\ Len(TheOut.labels) = Len(row)
           /\ \A i \in DOMAIN row : TheOut.labels[i] = ClaimedName(row[i])

\* C2's case: a first row that holds a mapped code and an unmapped one of two
\* digits, in a table of several rows
C2_Witness ==
    /\ Returned("get_corr_labels")
    /\ PolReadable(call.args.ms.pol)
    /\ Len(call.args.ms.pol.corr_type) > 1
    /\ call.args.ms.pol.corr_type[1] = <<6, 13>>
    /\ TheOut.labels = <<"RL", "13">>

\* C8: get_corr_labels does not fail when the POLARIZATION subtable cannot be
\* read: it returns '0', ..., 'n-1', n being the n_corr load_ms_columns
\* reports for the column (4 for a column it does not report); and on both
\* paths the POLARIZATION table, if it was opened, is closed on return.
C8_FallbackAndClose ==
    Returned("get_corr_labels")
    => LET ms   == call.args.ms
           info == LoadMsColumns(ms).vis_colinfo
           n    == IF call.args.vis_col \in DOMAIN info
                   THEN info[call.args.vis_col].n_corr ELSE 4
       IN  /\ TheOut.exc = "none"
           /\ ~PolReadable(ms.pol) => TheOut.labels = [i \in 1..n |-> DecimalNames[i]]
           /\ TheOut.opened => TheOut.closed

\* the column c of the frame the claim describes: the values at the unflagged
\* positions of the flag array, taken at corr_idx when one is given
ClaimedColumn(ms, c, corr_idx) ==
    LET n       == ms.nrows * ms.nchan * ms.ncorr
        taken   == [i \in 1..n |-> \A k \in corr_idx : (i - 1) % ms.ncorr = k]
        keep    == [i \in 1..n |-> taken[i] /\ ~ms.flags[i]]
        valueAt == [i \in 1..n |->
                       IF c = "FLAG" THEN ms.flags[i]
                       ELSE IF c = "TIME" THEN (i - 1) \div (ms.nchan * ms.ncorr)
                       ELSE i - 1]
    IN  Compress(valueAt, keep)

\* C7: load_ms_data with a flag column returns a frame whose columns all have
\* the length of the unflagged part of the flag array (sliced at corr_idx),
\* row i of each being the value at the i-th unflagged sample; for visibility
\* columns, per-row columns and the FLAG column alike.
C7_FrameIsUnflaggedSamples ==
    (/\ Returned("load_ms_data")
     /\ call.args.flag_col = "FLAG"
     /\ "FLAG" \in Range(call.args.ms.colnames)
     /\ call.args.usecols \subseteq {"TIME", "DATA", "FLAG"})
    => /\ TheOut.exc = "none"
       /\ \A c \in call.args.usecols :
            TheOut.frame[c] = ClaimedColumn(call.args.ms, c, call.args.corr_idx)

(***************************************************************************)
(* The claim about the threads, under SpecMainFair.                        *)
(***************************************************************************)
MainEnded == main_pc \in {"returned", "raised"}

\* plot_gui hands the server to a daemon thread and returns before the thread
\* has started the server
Detached ==
    [][(main_pc = "plot_gui" /\ main_pc' = "import")
       => server' = [pc |-> "bk_worker", daemon |-> TRUE]]_vars

\* main does not end unless it was interrupted, and in its loop an interrupt
\* and its handler can run whatever the server thread is doing
MainIdles ==
    /\ [](MainEnded => sigint /= "none")
    /\ [](main_pc = "sleep" => ENABLED KeyboardInterrupt)
    /\ [](main_pc = "except" => ENABLED main_except)

\* an interrupted main ends, and the process ends once main has
InterruptEndsProcess ==
    /\ (sigint /= "none") ~> MainEnded
    /\ MainEnded ~> (process = "exited")

\* C5 as stated: plot_gui starts the server on a daemon thread and returns
\* without waiting; main idles and does not return on its own; a
\* KeyboardInterrupt in the main thread always ends main, after the exit
\* message is printed, whatever the server thread does; and the daemon does
\* not keep the process alive once main has ended.
C5_AsStated ==
    /\ Detached
    /\ MainIdles
    /\ [](MainEnded => main_pc = "returned" /\ stdout = <<ExitMessage>>)
    /\ InterruptEndsProcess

\* C5, amended: as C5_AsStated, but the exit message is printed exactly when
\* the KeyboardInterrupt arrives in the sleep loop; one that arrives in main
\* before the try block ends main by the exception, and nothing is printed.
C5_InterruptEndsMain ==
    /\ Detached
    /\ MainIdles
    /\ [](MainEnded =>
            \/ sigint = "try" /\ main_pc = "returned" /\ stdout = <<ExitMessage>>
            \/ sigint = "outside" /\ main_pc = "raised" /\ stdout = <<>>)
    /\ InterruptEndsProcess

\* C5's case: main was interrupted in its loop while the server thread was in
\* its io loop, the message was printed and the process has ended
C5_Witness ==
    /\ process = "exited"
    /\ main_pc = "returned"
    /\ sleeps > 0
    /\ stdout = <<ExitMessage>>
    /\ server.pc = "io_loop"

====
